---- MODULE Spec2Model ----
(***************************************************************************)
(* GPU-Nebula control plane: the agent report-in endpoint                  *)
(* (backend/main.py), the JobScheduler (backend/scheduler.py) and the      *)
(* SQLite store they share (backend/create_db.py).                         *)
(*                                                                         *)
(* The store is modelled as its committed tables.  A request handler runs  *)
(* in a FastAPI worker thread with its own SQLAlchemy session, so handlers *)
(* interleave between database statements.  SQLite admits one write        *)
(* transaction at a time: `lock' is the holder of the write lock, and      *)
(* every other writer waits for it.                                        *)
(***************************************************************************)
EXTENDS Integers, Sequences, FiniteSets, TLC

\* Python None / SQL NULL in an integer or timestamp column.
NULL == -1
\* Python None / SQL NULL in a string column.
NoId == "none"

\* ---- bounds of the model ----
MaxCalls == 3       \* submit and report-in requests over a run

\* Worker threads: two requests in progress together, which covers every pair of
\* overlapping handlers.
Threads == {1, 2}
NoLock == 0

\* ---- hosts ----
\* socket.gethostname() of the control plane, and the agents that report.
\* An agent is local when the control plane's hostname is a substring of its
\* hostname (scheduler.py:178).
ControlPlaneHost == "ctl"
Hostnames == {"ctl-agent", "node1"}
HostnameContains(h, sub) == sub = "ctl" /\ h \in {"ctl", "ctl-agent", "ctl-GPU-Detected"}
IpOf(h) == IF HostnameContains(h, ControlPlaneHost) THEN "10.0.0.1" ELSE "10.0.0.2"

\* ---- GPU ids; rank gives the lexicographic order of the ids ----
IdOrder == <<"G-A", "G-B", "G-C">>
IdRank(id) == CHOOSE i \in 1..Len(IdOrder) : IdOrder[i] = id

\* ---- reported GPU records (JSON objects of gpu_report.gpus) ----
Get(d, k, default) == IF k \in DOMAIN d THEN d[k] ELSE default

gA == [id |-> "G-A", name |-> "card A", status |-> "healthy",
       temperature |-> 50, utilization |-> 0, memoryTotal |-> 100, memoryUsed |-> 50]
gAhot == [id |-> "G-A", name |-> "card A", status |-> "overheating",
          temperature |-> 95, utilization |-> 100, memoryTotal |-> 100, memoryUsed |-> 100]
gBbusy == [id |-> "G-B", name |-> "card B", status |-> "healthy",
           temperature |-> 85, utilization |-> 100, memoryTotal |-> 100, memoryUsed |-> 100]

ReportLists == { <<gA>>, <<gBbusy, gA>>, <<gAhot>> }

VARIABLES
    agents,     \* table agents, in id order: agents[i] has id i
    gpus,       \* table gpus, in rowid order (the order an unordered SELECT returns)
    jobs,       \* table jobs: jobs[i] has id i
    history,    \* table history, in id order
    now,        \* the clock
    lock,       \* holder of SQLite's write lock: a thread, or NoLock
    pc,         \* per thread: where its handler stands ("idle": no request)
    loc,        \* per thread: the handler's local variables
    nCalls,     \* submit and report-in requests so far
    lastReport, \* per hostname: the gpu list of its last committed report-in
    reporter,   \* per hostname: the report loop of the agent process (agent.py)
    reachable,  \* whether the control plane answers the agents' requests
    workloads,  \* table workloads of the workload scheduler (app/): workloads[i] has id i
    sql_gpus,   \* table gpus of the workload scheduler: the uuids, in row order
    caller      \* per caller of the workload scheduler: where its call stands

vars == <<agents, gpus, jobs, history, now, lock, pc, loc, nCalls, lastReport,
          reporter, reachable, workloads, sql_gpus, caller>>
\* The control plane's handlers leave the agent processes and the workload
\* scheduler's tables alone, and the other way round.
others == <<reporter, reachable, workloads, sql_gpus, caller>>
control == <<agents, gpus, jobs, history, now, lock, pc, loc, nCalls, lastReport>>

\* No agent process runs and the workload scheduler's tables are empty.
Callers == {1, 2}
OthersInit ==
    /\ reporter = [h \in Hostnames |-> [pc |-> "off", outcome |-> "none"]]
    /\ reachable = TRUE
    /\ workloads = <<>>
    /\ sql_gpus = <<>>
    /\ caller = [c \in Callers |-> [pc |-> "idle"]]

\* ---- helpers on sequences ----
Indices(s) == 1..Len(s)
\* Threads are interchangeable: a request takes the lowest idle thread.
LowestIdle(t) == pc[t] = "idle" /\ \A u \in Threads : u < t => pc[u] # "idle"
NoLocals == [kind |-> "idle"]

\* ---- state store (create_db.py) ----
GpuIds(g) == {g[i].id : i \in Indices(g)}
GpuById(g, id) == g[CHOOSE i \in Indices(g) : g[i].id = id]
AgentIdByHostname(a, h) ==
    IF \E i \in Indices(a) : a[i].hostname = h
    THEN CHOOSE i \in Indices(a) : a[i].hostname = h
    ELSE NULL
RowsOfAgent(g, aid) == SelectSeq(g, LAMBDA row : row.agent_id = aid)
RowsOfNoAgent(g, aid) == <<>>
RowsNotOfAgent(g, aid) == SelectSeq(g, LAMBDA row : row.agent_id # aid)
CanWrite == lock = NoLock
\* The UNIQUE constraint on agents.hostname (create_db.py:11): an INSERT of a
\* hostname that a committed row holds fails.
HostnameNeverTaken(a, h) == FALSE
HostnameTaken(a, h) == \E i \in Indices(a) : a[i].hostname = h

\* The GPU row built from one reported record (main.py:199-212).
GpuRowAlwaysAvailable(d, aid) ==
    [id |-> Get(d, "id", NoId),
     name |-> Get(d, "name", "Unknown GPU"),
     status |-> Get(d, "status", "unknown"),
     temperature |-> Get(d, "temperature", 0),
     utilization |-> Get(d, "utilization", 0),
     memory_total |-> Get(d, "memoryTotal", 0),
     memory_used |-> Get(d, "memoryUsed", 0),
     agent_id |-> aid,
     is_available |-> TRUE]
GpuRow(d, aid) ==
    [id |-> Get(d, "id", NoId),
     name |-> Get(d, "name", "Unknown GPU"),
     status |-> Get(d, "status", "unknown"),
     temperature |-> Get(d, "temperature", 0),
     utilization |-> Get(d, "utilization", 0),
     memory_total |-> Get(d, "memoryTotal", 0),
     memory_used |-> Get(d, "memoryUsed", 0),
     agent_id |-> aid,
     is_available |-> (Get(d, "status", NoId) = "healthy")]

\* ---- report-in (main.py agent_report_in) ----
\* What other sessions see of table gpus once the DELETE of main.py:193 has run
\* inside the still open transaction: nothing changes before the commit.
GpusVisibleAfterDeleteAutocommit(g, aid) == RowsNotOfAgent(g, aid)
GpusVisibleAfterDelete(g, aid) == g

\* The flush at commit inserts the new rows: it fails on a NULL primary key, on an
\* id repeated in the report and on an id another agent's row already holds.
InsertsAccepted(kept, new) ==
    /\ \A i \in Indices(new) : new[i].id # NoId /\ new[i].id \notin GpuIds(kept)
    /\ \A i, k \in Indices(new) : new[i].id = new[k].id => i = k

\* db.rollback() (main.py:230) discards the upsert of the agent with the rest of
\* the transaction.
AgentsAfterRollbackKeepingUpsert(a, aid, row) ==
    IF aid > Len(a) THEN Append(a, row) ELSE [a EXCEPT ![aid] = row]
AgentsAfterRollback(a, aid, row) == a

NoReply == [code |-> 0, gpus_added |-> 0, gpus_removed |-> 0]
Reply(code, added, removed) == [code |-> code, gpus_added |-> added, gpus_removed |-> removed]

\* A request arrives and the handler looks the agent up by hostname (main.py:176);
\* last_seen is read from the clock right after (main.py:180, 186).
ReportStart(t, h, l) ==
    /\ LowestIdle(t)
    /\ nCalls < MaxCalls
    /\ nCalls' = nCalls + 1
    /\ loc' = [loc EXCEPT ![t] =
                  [kind |-> "report", hostname |-> h, ip_address |-> IpOf(h), gpus |-> l,
                   at |-> now, agent |-> AgentIdByHostname(agents, h), result |-> NoReply]]
    /\ pc' = [pc EXCEPT ![t] = "upsert"]
    /\ UNCHANGED <<agents, gpus, jobs, history, now, lock, lastReport>>
    /\ UNCHANGED others

\* Upsert and clear (main.py:177-193).  A new agent is INSERTed at the flush of
\* line 189, which fails when the hostname has been committed meanwhile; the
\* first statement that writes takes the write lock.
ReportClear(t) ==
    /\ pc[t] = "upsert"
    /\ CanWrite
    /\ IF loc[t].agent = NULL /\ HostnameTaken(agents, loc[t].hostname)
       THEN /\ pc' = [pc EXCEPT ![t] = "reported"]
            /\ loc' = [loc EXCEPT ![t].result = Reply(500, 0, 0)]
            /\ UNCHANGED <<lock, gpus>>
       ELSE /\ pc' = [pc EXCEPT ![t] = "tx"]
            /\ lock' = t
            /\ gpus' = GpusVisibleAfterDelete(gpus,
                          IF loc[t].agent = NULL THEN Len(agents) + 1 ELSE loc[t].agent)
            /\ UNCHANGED loc
    /\ UNCHANGED <<agents, jobs, history, now, nCalls, lastReport>>
    /\ UNCHANGED others

\* Insert the reported GPUs and commit (main.py:195-227), or roll back (229-236).
ReportCommit(t) ==
    /\ pc[t] = "tx"
    /\ lock = t
    /\ LET aid == IF loc[t].agent = NULL THEN Len(agents) + 1 ELSE loc[t].agent
           row == [hostname |-> loc[t].hostname, ip_address |-> loc[t].ip_address,
                   last_seen |-> loc[t].at]
           kept == RowsNotOfAgent(gpus, aid)
           new == [i \in Indices(loc[t].gpus) |-> GpuRow(loc[t].gpus[i], aid)]
       IN  IF InsertsAccepted(kept, new)
           THEN /\ agents' = IF loc[t].agent = NULL THEN Append(agents, row)
                             ELSE [agents EXCEPT ![aid] = row]
                /\ gpus' = kept \o new
                /\ lastReport' = [lastReport EXCEPT ![loc[t].hostname] = loc[t].gpus]
                /\ loc' = [loc EXCEPT ![t].result =
                              Reply(200, Len(new), Len(RowsOfAgent(gpus, aid)))]
           ELSE /\ loc' = [loc EXCEPT ![t].result = Reply(500, 0, 0)]
                /\ agents' = AgentsAfterRollback(agents, aid, row)
                /\ UNCHANGED <<gpus, lastReport>>
    /\ lock' = NoLock
    /\ pc' = [pc EXCEPT ![t] = "reported"]
    /\ UNCHANGED <<jobs, history, now, nCalls>>
    /\ UNCHANGED others

\* The reply is sent and the thread is free again.
ReportReturn(t) ==
    /\ pc[t] = "reported"
    /\ pc' = [pc EXCEPT ![t] = "idle"]
    /\ loc' = [loc EXCEPT ![t] = NoLocals]
    /\ UNCHANGED <<agents, gpus, jobs, history, now, lock, nCalls, lastReport>>
    /\ UNCHANGED others

\* ---- placement (scheduler.py _find_optimal_gpu, _calculate_gpu_priority_score) ----
\* Python truthiness of a nullable integer column: None and 0 are false.
Truthy(x) == x # NULL /\ x # 0

\* ListAvailableGPUs: the filter of scheduler.py:90-93, rows in store order.
ListAvailableAnyStatus(g) == g
ListAvailableGPUs(g) == SelectSeq(g, LAMBDA row : row.status = "healthy" /\ row.is_available)

\* Jobs with status running or pending on a GPU (scheduler.py:99-105).
ActiveJobsAnywhere(j, id) ==
    Cardinality({i \in Indices(j) : j[i].status \in {"running", "pending"}})
ActiveJobsOn(j, id) ==
    Cardinality({i \in Indices(j) : /\ j[i].status \in {"running", "pending"}
                                    /\ j[i].assigned_gpu_id # NoId
                                    /\ j[i].assigned_gpu_id = id})

\* The priority score (scheduler.py:137-164), a float in the code, here the exact
\* fraction <<numerator, denominator>> with a positive denominator:
\*   2.0 * temp_score + 3.0 * util_score + 5.0 * jobs_score + 1.5 * memory_usage_pct
\* with memory_usage_pct = memory_used / memory_total * 100 when both are truthy
\* and 50 otherwise.
TempScore(gpu) ==
    LET temp == IF Truthy(gpu.temperature) THEN gpu.temperature ELSE 50
    IN  IF temp > 80 THEN temp * 2 ELSE temp
UtilScore(gpu) == IF Truthy(gpu.utilization) THEN gpu.utilization ELSE 0
JobsScore(n) == n * 20
MemoryKnown(gpu) == Truthy(gpu.memory_total) /\ Truthy(gpu.memory_used)
calculate_gpu_priority_score(gpu, n) ==
    LET base == 2 * TempScore(gpu) + 3 * UtilScore(gpu) + 5 * JobsScore(n)
    IN  IF MemoryKnown(gpu)
        THEN <<2 * base * gpu.memory_total + 300 * gpu.memory_used, 2 * gpu.memory_total>>
        ELSE <<2 * base + 150, 2>>
ScoreGreater(a, b) == a[1] * b[2] > b[1] * a[2]
ScoreLess(a, b) == a[1] * b[2] < b[1] * a[2]
ScoreIs(a, n) == a[1] = n * a[2]

\* The scan of scheduler.py:108-118 over the candidates in the order the store
\* returned them: a candidate replaces the best so far only on a strictly lower
\* score.  The result is an index into cands.
RECURSIVE BestIndex(_, _, _, _)
BestIndex(cands, j, i, best) ==
    IF i > Len(cands) THEN best
    ELSE IF best = 0 \/ ScoreLess(calculate_gpu_priority_score(cands[i], ActiveJobsOn(j, cands[i].id)),
                                  calculate_gpu_priority_score(cands[best], ActiveJobsOn(j, cands[best].id)))
         THEN BestIndex(cands, j, i + 1, i)
         ELSE BestIndex(cands, j, i + 1, best)
find_optimal_gpu(cands, j) == cands[BestIndex(cands, j, 1, 0)]

\* ---- submit (scheduler.py schedule_job) ----
NoGpu == [id |-> NoId, agent_id |-> NULL]
NoResult == [status |-> "none", job_id |-> NULL, gpu |-> NoId]
ErrorResult == [status |-> "error", job_id |-> NULL, gpu |-> NoId]
Event(job_id, action, details) ==
    [job_id |-> job_id, action |-> action, details |-> details, timestamp |-> now]
\* _log_job_history (scheduler.py:249-257): one row is inserted and committed.
log_job_history_update(h, job_id, action, details) ==
    IF h = <<>> THEN <<Event(job_id, action, details)>>
    ELSE [h EXCEPT ![Len(h)] = Event(job_id, action, details)]
log_job_history(h, job_id, action, details) == Append(h, Event(job_id, action, details))

\* Ids of the GPU rows that are healthy and available.
HealthyAvailableIds(g) ==
    {g[i].id : i \in {k \in Indices(g) : g[k].status = "healthy" /\ g[k].is_available = TRUE}}

\* The job row of scheduler.py:32-36 (no fit) ...
QueuedJobDefaultStatus(sel) ==
    [status |-> "pending", assigned_gpu_id |-> NoId, agent_id |-> NULL,
     pid |-> NULL, started_at |-> NULL, finished_at |-> NULL]
QueuedJob(sel) ==
    [status |-> "queued", assigned_gpu_id |-> NoId, agent_id |-> NULL,
     pid |-> NULL, started_at |-> NULL, finished_at |-> NULL]
\* ... and of scheduler.py:44-50 (a GPU was selected).
PendingJob(sel) ==
    [status |-> "pending", assigned_gpu_id |-> sel.id, agent_id |-> sel.agent_id,
     pid |-> NULL, started_at |-> NULL, finished_at |-> NULL]

\* Outcomes of subprocess.Popen (scheduler.py:199-215): the pid the OS assigned,
\* or an exception.
OsPid == 101
NoLaunch == [kind |-> "exception", code |-> 0, pid |-> NULL]
LocalOutcomes == {[kind |-> "spawned", code |-> 0, pid |-> OsPid], NoLaunch}
\* Outcomes of the POST to the agent (scheduler.py:230-247): a reply with a status
\* code and a body whose "pid" may be missing, or a timeout / connection error.
RemoteOutcomes == {[kind |-> "reply", code |-> 200, pid |-> OsPid],
                   [kind |-> "reply", code |-> 200, pid |-> NULL],
                   [kind |-> "reply", code |-> 500, pid |-> NULL],
                   NoLaunch}
\* The handle is committed on the pending job (scheduler.py:208-209, 238-239).
LaunchedFieldsRunning(job, pid) == [job EXCEPT !.pid = pid, !.status = "running"]
LaunchedFields(job, pid) == [job EXCEPT !.pid = pid]
launch_local_job(o) == [ok |-> o.kind = "spawned", pid |-> o.pid]
launch_remote_job(o) == [ok |-> o.kind = "reply" /\ o.code = 200, pid |-> o.pid]
is_local_agent_exact(a, aid) ==
    /\ aid \in Indices(a)
    /\ a[aid].hostname = ControlPlaneHost
is_local_agent(a, aid) ==
    /\ aid \in Indices(a)
    /\ HostnameContains(a[aid].hostname, ControlPlaneHost)

\* preferred_gpu of a request: absent, empty, "auto", or a GPU id.  An absent and
\* an empty one are both false for the test of scheduler.py:22.
Prefs == {NoId, "", "auto", "G-A"}
IsAutoAlways(pref) == TRUE
IsAuto(pref) == ~((pref # NoId /\ pref # "") /\ pref # "auto")

\* workload_type and command of a request are strings, here sequences of
\* characters.  The validators of JobRequest (main.py:130-140) refuse a field that
\* is empty or blank and otherwise replace it by v.strip().
Fields == {<<>>, <<" ">>, <<" ", "x", " ">>}
RECURSIVE LStrip(_)
LStrip(v) == IF v # <<>> /\ Head(v) = " " THEN LStrip(Tail(v)) ELSE v
RECURSIVE RStrip(_)
RStrip(v) == IF v # <<>> /\ v[Len(v)] = " " THEN RStrip(SubSeq(v, 1, Len(v) - 1)) ELSE v
Strip(v) == RStrip(LStrip(v))
FieldAcceptedUnlessEmpty(v) == ~(v = <<>>)
FieldAccepted(v) == ~(v = <<>> \/ Strip(v) = <<>>)
JobRequests == [workload_type : Fields, command : Fields, preferred_gpu : Prefs]
JobRequestAccepted(req) == FieldAccepted(req.workload_type) /\ FieldAccepted(req.command)

\* main.py:425-436 with scheduler.py:19-28 and 90-96: the request has passed the
\* validators; the preferred GPU is looked up, or the healthy available GPUs are
\* queried.
SubmitStart(t, req) ==
    /\ LowestIdle(t)
    /\ JobRequestAccepted(req)
    /\ nCalls < MaxCalls
    /\ nCalls' = nCalls + 1
    /\ LET pref == req.preferred_gpu
           l == [kind |-> "submit", workload_type |-> Strip(req.workload_type),
                 command |-> Strip(req.command),
                 auto |-> IsAuto(pref), avail |-> HealthyAvailableIds(gpus),
                 cands |-> <<>>, sel |-> NoGpu, job |-> NULL, created |-> 0, tried |-> FALSE,
                 ok |-> FALSE, result |-> NoResult]
       IN  IF ~IsAuto(pref)
           THEN IF pref \in GpuIds(gpus)
                THEN /\ loc' = [loc EXCEPT ![t] = [l EXCEPT !.sel =
                                   [id |-> pref, agent_id |-> GpuById(gpus, pref).agent_id]]]
                     /\ pc' = [pc EXCEPT ![t] = "create"]
                ELSE /\ loc' = [loc EXCEPT ![t] = [l EXCEPT !.result = ErrorResult]]
                     /\ pc' = [pc EXCEPT ![t] = "submitted"]
           ELSE /\ loc' = [loc EXCEPT ![t] = [l EXCEPT !.cands = ListAvailableGPUs(gpus)]]
                /\ pc' = [pc EXCEPT ![t] =
                        IF ListAvailableGPUs(gpus) = <<>> THEN "create" ELSE "score"]
    /\ UNCHANGED <<agents, gpus, jobs, history, now, lock, lastReport>>
    /\ UNCHANGED others

\* scheduler.py:98-123: count the active jobs and pick the best candidate.
SubmitScore(t) ==
    /\ pc[t] = "score"
    /\ LET g == find_optimal_gpu(loc[t].cands, jobs)
       IN  loc' = [loc EXCEPT ![t].sel = [id |-> g.id, agent_id |-> g.agent_id]]
    /\ pc' = [pc EXCEPT ![t] = "create"]
    /\ UNCHANGED <<agents, gpus, jobs, history, now, lock, nCalls, lastReport>>
    /\ UNCHANGED others

\* scheduler.py:30-38 and 43-52: the job row is inserted and committed.
SubmitCreate(t) ==
    /\ pc[t] = "create"
    /\ CanWrite
    /\ jobs' = Append(jobs, IF loc[t].sel = NoGpu THEN QueuedJob(loc[t].sel)
                            ELSE PendingJob(loc[t].sel))
    /\ loc' = [loc EXCEPT ![t].job = Len(jobs) + 1, ![t].created = @ + 1, ![t].cands = <<>>]
    /\ pc' = [pc EXCEPT ![t] = IF loc[t].sel = NoGpu THEN "logq" ELSE "launch"]
    /\ UNCHANGED <<agents, gpus, history, now, lock, nCalls, lastReport>>
    /\ UNCHANGED others

\* scheduler.py:40-41: the history event of a queued job, and the reply.
SubmitLogQueued(t) ==
    /\ pc[t] = "logq"
    /\ CanWrite
    /\ history' = log_job_history(history, loc[t].job, "queued", "No available GPUs, job queued")
    /\ loc' = [loc EXCEPT ![t].result = [status |-> "queued", job_id |-> loc[t].job, gpu |-> NoId]]
    /\ pc' = [pc EXCEPT ![t] = "submitted"]
    /\ UNCHANGED <<agents, gpus, jobs, now, lock, nCalls, lastReport>>
    /\ UNCHANGED others

\* scheduler.py:54-58 with 183-247.  The commit of line 52 expired the session's
\* objects, so _is_local_gpu reloads the GPU row: when a report-in has deleted it
\* the reload raises, schedule_job returns an error (78-80) and the job stays
\* pending.  Otherwise the job is launched on the agent that owns the row now.
SubmitLaunch(t, o) ==
    /\ pc[t] = "launch"
    /\ IF loc[t].sel.id \notin GpuIds(gpus)
       THEN /\ o = NoLaunch
            /\ loc' = [loc EXCEPT ![t].result = ErrorResult]
            /\ pc' = [pc EXCEPT ![t] = "submitted"]
            /\ UNCHANGED jobs
       ELSE LET local == is_local_agent(agents, GpuById(gpus, loc[t].sel.id).agent_id)
                res == IF local THEN launch_local_job(o) ELSE launch_remote_job(o)
            IN  /\ o \in (IF local THEN LocalOutcomes ELSE RemoteOutcomes)
                /\ loc' = [loc EXCEPT ![t].tried = TRUE, ![t].ok = res.ok]
                /\ IF res.ok
                   THEN /\ CanWrite
                        /\ jobs' = [jobs EXCEPT ![loc[t].job] = LaunchedFields(@, res.pid)]
                   ELSE UNCHANGED jobs
                /\ pc' = [pc EXCEPT ![t] = "mark"]
    /\ UNCHANGED <<agents, gpus, history, now, lock, nCalls, lastReport>>
    /\ UNCHANGED others

\* scheduler.py:60-63 and 72-74: the outcome of the launch is committed.
FailedFieldsStillPending(job) == job
FailedFields(job) == [job EXCEPT !.status = "failed"]
RunningFields(job) == [job EXCEPT !.status = "running", !.started_at = now]
SubmitMark(t) ==
    /\ pc[t] = "mark"
    /\ CanWrite
    /\ jobs' = [jobs EXCEPT ![loc[t].job] =
                   IF loc[t].ok THEN RunningFields(jobs[loc[t].job])
                   ELSE FailedFields(jobs[loc[t].job])]
    /\ pc' = [pc EXCEPT ![t] = IF loc[t].ok THEN "log" ELSE "logf"]
    /\ UNCHANGED <<agents, gpus, history, now, lock, loc, nCalls, lastReport>>
    /\ UNCHANGED others

\* scheduler.py:64-71 and 75-76: the history event and the reply.  Line 64 reads
\* the selected GPU's name, which reloads the row and raises when it is gone.
SubmitLog(t) ==
    /\ pc[t] \in {"log", "logf"}
    /\ IF pc[t] = "logf"
       THEN /\ CanWrite
            /\ history' = log_job_history(history, loc[t].job, "failed", "Failed to launch job")
            /\ loc' = [loc EXCEPT ![t].result =
                          [status |-> "failed", job_id |-> loc[t].job, gpu |-> NoId]]
       ELSE IF loc[t].sel.id \notin GpuIds(gpus)
            THEN /\ loc' = [loc EXCEPT ![t].result = ErrorResult]
                 /\ UNCHANGED history
            ELSE /\ CanWrite
                 /\ history' = log_job_history(history, loc[t].job, "started", "Job running")
                 /\ loc' = [loc EXCEPT ![t].result =
                               [status |-> "running", job_id |-> loc[t].job,
                                gpu |-> GpuById(gpus, loc[t].sel.id).name]]
    /\ pc' = [pc EXCEPT ![t] = "submitted"]
    /\ UNCHANGED <<agents, gpus, jobs, now, lock, nCalls, lastReport>>
    /\ UNCHANGED others

\* The reply is sent and the thread is free again (scheduler.py:81-82).
SubmitReturn(t) ==
    /\ pc[t] = "submitted"
    /\ pc' = [pc EXCEPT ![t] = "idle"]
    /\ loc' = [loc EXCEPT ![t] = NoLocals]
    /\ UNCHANGED <<agents, gpus, jobs, history, now, lock, nCalls, lastReport>>
    /\ UNCHANGED others

\* ---- monitor (scheduler.py monitor_jobs) ----
\* The query of scheduler.py:263: ids of the jobs a tick examines.
RunningJobs(j) == SelectSeq([i \in Indices(j) |-> i], LAMBDA i : j[i].status = "running")

\* Answers of the probe of a local process (psutil, scheduler.py:273-282) and of
\* the agent's job-status endpoint (scheduler.py:289-303).
LocalProbes == {"running", "not_running", "no_such_process"}
RemoteProbes == {"running", "not_running", "not_found", "non200", "exception"}
ProbeSaysFinishedUnlessRunning(local, probe) == probe # "running"
ProbeSaysFinished(local, probe) ==
    IF local THEN probe \in {"not_running", "no_such_process"}
    ELSE probe \in {"not_running", "not_found"}
CompletedDetails(local, probe) ==
    IF ~local THEN "Remote job finished"
    ELSE IF probe = "not_running" THEN "Job process finished."
    ELSE "Job process not found, assuming completed."
CompletedFieldsStatusOnly(job) == [job EXCEPT !.status = "completed"]
CompletedFields(job) == [job EXCEPT !.status = "completed", !.finished_at = now]

\* scheduler.py:261-263: a tick loads the running jobs.
MonitorStart(t) ==
    /\ LowestIdle(t)
    /\ loc' = [loc EXCEPT ![t] = [kind |-> "monitor", queue |-> RunningJobs(jobs)]]
    /\ pc' = [pc EXCEPT ![t] = "loop"]
    /\ UNCHANGED <<agents, gpus, jobs, history, now, lock, nCalls, lastReport>>
    /\ UNCHANGED others

\* One iteration of the loop of scheduler.py:265-303 over the jobs loaded at 263.
\* The job's current status is not read again: a job found finished is written
\* completed whatever its row says by now.
MonitorStep(t, probe) ==
    /\ pc[t] = "loop"
    /\ loc[t].queue # <<>>
    /\ LET id == Head(loc[t].queue)
           job == jobs[id]
           local == is_local_agent(agents, job.agent_id)
       IN  /\ probe \in (IF local THEN LocalProbes ELSE RemoteProbes)
           /\ IF /\ Truthy(job.pid)
                 /\ local \/ job.agent_id \in Indices(agents)
                 /\ ProbeSaysFinished(local, probe)
              THEN /\ CanWrite
                   /\ jobs' = [jobs EXCEPT ![id] = CompletedFields(job)]
                   /\ history' = log_job_history(history, id, "completed",
                                                  CompletedDetails(local, probe))
              ELSE UNCHANGED <<jobs, history>>
    /\ loc' = [loc EXCEPT ![t].queue = Tail(@)]
    /\ UNCHANGED <<agents, gpus, now, lock, pc, nCalls, lastReport>>
    /\ UNCHANGED others

\* scheduler.py:305-307: the loop is over and the thread is free again.
MonitorEnd(t) ==
    /\ pc[t] = "loop"
    /\ loc[t].queue = <<>>
    /\ pc' = [pc EXCEPT ![t] = "idle"]
    /\ loc' = [loc EXCEPT ![t] = NoLocals]
    /\ UNCHANGED <<agents, gpus, jobs, history, now, lock, nCalls, lastReport>>
    /\ UNCHANGED others

\* ---- requests answered without a write (main.py) ----
HttpReply(code, body) == [code |-> code, body |-> body]
JobIdsAsked == {1, 2}

\* A request whose workload_type or command the validators refuse never reaches
\* submit_job: the framework answers 422.
SubmitReject(t, req) ==
    /\ LowestIdle(t)
    /\ ~JobRequestAccepted(req)
    /\ loc' = [loc EXCEPT ![t] =
                  [kind |-> "rejected", result |-> HttpReply(422, [status |-> "error"])]]
    /\ pc' = [pc EXCEPT ![t] = "answered"]
    /\ UNCHANGED <<agents, gpus, jobs, history, now, lock, nCalls, lastReport>>
    /\ UNCHANGED others

\* JobScheduler.get_job_status (scheduler.py:309-329): the snapshot of the job, or
\* a dict with the one key "error".
get_job_status(job_id) ==
    IF job_id \notin Indices(jobs)
    THEN [error |-> "Job not found"]
    ELSE LET job == jobs[job_id]
         IN  [id |-> job_id,
              status |-> job.status,
              gpu |-> IF job.assigned_gpu_id \in GpuIds(gpus)
                      THEN GpuById(gpus, job.assigned_gpu_id).name ELSE NoId,
              agent |-> IF job.agent_id \in Indices(agents)
                        THEN agents[job.agent_id].hostname ELSE NoId,
              started_at |-> job.started_at,
              finished_at |-> job.finished_at]
\* The endpoint (main.py:447-462) answers 404 when the result has the key "error"
\* and its "status" is "not_found", 500 when it has the key "error", and
\* otherwise returns the result.
StatusCode(result) ==
    IF "error" \in DOMAIN result /\ Get(result, "status", NoId) = "not_found" THEN 404
    ELSE IF "error" \in DOMAIN result THEN 500
    ELSE 200
StatusCall(t, job_id) ==
    /\ LowestIdle(t)
    /\ LET result == get_job_status(job_id)
       IN  loc' = [loc EXCEPT ![t] = [kind |-> "status", job_id |-> job_id,
                                      result |-> HttpReply(StatusCode(result), result)]]
    /\ pc' = [pc EXCEPT ![t] = "answered"]
    /\ UNCHANGED <<agents, gpus, jobs, history, now, lock, nCalls, lastReport>>
    /\ UNCHANGED others

\* The cancel endpoint (main.py:479-494) calls scheduler.cancel_job, a method
\* JobScheduler (scheduler.py:11-347) does not have: the call raises
\* AttributeError and the handler's except branch answers 500.
CancelCall(t, job_id) ==
    /\ LowestIdle(t)
    /\ loc' = [loc EXCEPT ![t] = [kind |-> "cancel", job_id |-> job_id,
                                  result |-> HttpReply(500, [status |-> "error"])]]
    /\ pc' = [pc EXCEPT ![t] = "answered"]
    /\ UNCHANGED <<agents, gpus, jobs, history, now, lock, nCalls, lastReport>>
    /\ UNCHANGED others

\* The reply is sent and the thread is free again.
AnswerReturn(t) ==
    /\ pc[t] = "answered"
    /\ pc' = [pc EXCEPT ![t] = "idle"]
    /\ loc' = [loc EXCEPT ![t] = NoLocals]
    /\ UNCHANGED <<agents, gpus, jobs, history, now, lock, nCalls, lastReport>>
    /\ UNCHANGED others

\* ---- the system ----
\* The tables are empty when the control plane starts (create_db.py:100-108).
Init ==
    /\ agents = <<>>
    /\ gpus = <<>>
    /\ jobs = <<>>
    /\ history = <<>>
    /\ now = 0
    /\ lock = NoLock
    /\ pc = [t \in Threads |-> "idle"]
    /\ loc = [t \in Threads |-> NoLocals]
    /\ nCalls = 0
    /\ lastReport = [h \in Hostnames |-> <<>>]
    /\ OthersInit

ReportNext ==
    \/ \E t \in Threads, h \in Hostnames, l \in ReportLists : ReportStart(t, h, l)
    \/ \E t \in Threads : ReportClear(t)
    \/ \E t \in Threads : ReportCommit(t)
    \/ \E t \in Threads : ReportReturn(t)
SubmitNext ==
    \/ \E t \in Threads, req \in JobRequests : SubmitStart(t, req)
    \/ \E t \in Threads : SubmitScore(t)
    \/ \E t \in Threads : SubmitCreate(t)
    \/ \E t \in Threads : SubmitLogQueued(t)
    \/ \E t \in Threads, o \in LocalOutcomes \cup RemoteOutcomes : SubmitLaunch(t, o)
    \/ \E t \in Threads : SubmitMark(t)
    \/ \E t \in Threads : SubmitLog(t)
    \/ \E t \in Threads : SubmitReturn(t)
MonitorNext ==
    \/ \E t \in Threads : MonitorStart(t)
    \/ \E t \in Threads, probe \in LocalProbes \cup RemoteProbes : MonitorStep(t, probe)
    \/ \E t \in Threads : MonitorEnd(t)

AnswerNext ==
    \/ \E t \in Threads, req \in JobRequests : SubmitReject(t, req)
    \/ \E t \in Threads, job_id \in JobIdsAsked : StatusCall(t, job_id)
    \/ \E t \in Threads, job_id \in JobIdsAsked : CancelCall(t, job_id)
    \/ \E t \in Threads : AnswerReturn(t)

Next == ReportNext \/ SubmitNext \/ MonitorNext

Spec == Init /\ [][Next]_vars

\* ---- the system with the requests that are answered without a write ----
\* Status, cancel and refused submit requests interleave with the handlers of
\* Spec; MaxApiCalls bounds the submit and report-in requests of a run.
MaxApiCalls == 2
ApiNext ==
    \/ Next /\ nCalls' <= MaxApiCalls
    \/ AnswerNext
ApiSpec == Init /\ [][ApiNext]_vars

\* ---- the system across a stop and start of the control plane ----
\* The process stops, which ends the handlers in progress and their
\* transactions; at start, lifespan (main.py:65-76) calls create_tables, which
\* removes the database file and creates empty tables (create_db.py:100-108).
Restart ==
    /\ agents' = <<>>
    /\ gpus' = <<>>
    /\ jobs' = <<>>
    /\ history' = <<>>
    /\ lock' = NoLock
    /\ pc' = [t \in Threads |-> "idle"]
    /\ loc' = [t \in Threads |-> NoLocals]
    /\ nCalls' = 0
    /\ lastReport' = [h \in Hostnames |-> <<>>]
    /\ UNCHANGED now
    /\ UNCHANGED others
RestartNext == Next \/ Restart
RestartSpec == Init /\ [][RestartNext]_vars

\* ---- report-in over a wide range of reports ----
\* Reports of both agents with well-formed and malformed records: a record
\* without "id", an id listed twice, and ids that the other agent may hold.  The
\* clock advances, so that last_seen tells one report-in from the next.
gB == [id |-> "G-B", name |-> "card B", status |-> "healthy",
       temperature |-> 50, utilization |-> 0, memoryTotal |-> 100, memoryUsed |-> 50]
gNoId == [name |-> "card", status |-> "healthy",
          temperature |-> 50, utilization |-> 0, memoryTotal |-> 100, memoryUsed |-> 50]
IngestLists == { <<>>, <<gA>>, <<gB>>, <<gAhot>>, <<gA, gA>>, <<gNoId, gB>> }
MaxTime == 1
Tick ==
    /\ now < MaxTime
    /\ now' = now + 1
    /\ UNCHANGED <<agents, gpus, jobs, history, lock, pc, loc, nCalls, lastReport>>
    /\ UNCHANGED others
IngestNext ==
    \/ \E t \in Threads, h \in Hostnames, l \in IngestLists : ReportStart(t, h, l)
    \/ \E t \in Threads : ReportClear(t)
    \/ \E t \in Threads : ReportCommit(t)
    \/ \E t \in Threads : ReportReturn(t)
    \/ Tick
IngestSpec == Init /\ [][IngestNext]_vars

\* ---- placement over a wide range of GPU tables ----
\* The store after one report-in of agent node1 and, for each job, a successful
\* remote launch: every list of up to MaxGpus reported records with distinct
\* ids, and up to two running jobs.  One auto submit is then placed.
MaxGpus == 2
PlacementIds == {IdOrder[i] : i \in 1..MaxGpus}
PlacementRecords ==
    [id : PlacementIds, name : {"card"}, status : {"healthy"}, temperature : {50, 79, 85},
     utilization : {0, 10}, memoryTotal : {100}, memoryUsed : {0, 50}]
PlacementReports ==
    {l \in UNION {[1..n -> PlacementRecords] : n \in 1..MaxGpus} :
        \A i, k \in Indices(l) : l[i].id = l[k].id => i = k}
RunningOn(id) ==
    [status |-> "running", assigned_gpu_id |-> id, agent_id |-> 1,
     pid |-> OsPid, started_at |-> 0, finished_at |-> NULL]
PlacementJobs ==
    {<<>>} \cup {<<RunningOn(a)>> : a \in PlacementIds}
           \cup {<<RunningOn(a), RunningOn(b)>> : a \in PlacementIds, b \in PlacementIds}

PlacementInit ==
    /\ now = 0
    /\ agents = <<[hostname |-> "node1", ip_address |-> IpOf("node1"), last_seen |-> 0]>>
    /\ \E l \in PlacementReports :
          /\ gpus = [i \in Indices(l) |-> GpuRow(l[i], 1)]
          /\ lastReport = [h \in Hostnames |-> IF h = "node1" THEN l ELSE <<>>]
    /\ jobs \in PlacementJobs
    /\ history = [i \in Indices(jobs) |-> Event(i, "started", "Job running")]
    /\ lock = NoLock
    /\ pc = [t \in Threads |-> "idle"]
    /\ loc = [t \in Threads |-> NoLocals]
    /\ nCalls = 0
    /\ OthersInit

PlacementNext ==
    \/ SubmitStart(1, [workload_type |-> <<"x">>, command |-> <<"x">>, preferred_gpu |-> "auto"])
    \/ SubmitScore(1)

PlacementSpec == PlacementInit /\ [][PlacementNext]_vars

\* ---- submits one after the other over two GPUs ----
\* Agent node1 has reported G-A and G-B, in either order, healthy, equal or
\* different in temperature.  One thread serves auto submits and monitor ticks,
\* so that each request starts after the one before has returned.
PairRecords ==
    [id : {"G-A", "G-B"}, name : {"card"}, status : {"healthy"}, temperature : {50, 85},
     utilization : {0}, memoryTotal : {100}, memoryUsed : {50}]
PairReports == {l \in [1..2 -> PairRecords] : l[1].id # l[2].id}
AutoRequest == [workload_type |-> <<" ", "x", " ">>, command |-> <<" ", "x", " ">>,
                preferred_gpu |-> "auto"]
SuccessiveInit ==
    /\ now = 0
    /\ agents = <<[hostname |-> "node1", ip_address |-> IpOf("node1"), last_seen |-> 0]>>
    /\ \E l \in PairReports :
          /\ gpus = [i \in Indices(l) |-> GpuRow(l[i], 1)]
          /\ lastReport = [h \in Hostnames |-> IF h = "node1" THEN l ELSE <<>>]
    /\ jobs = <<>>
    /\ history = <<>>
    /\ lock = NoLock
    /\ pc = [t \in Threads |-> "idle"]
    /\ loc = [t \in Threads |-> NoLocals]
    /\ nCalls = 0
    /\ OthersInit
SuccessiveNext ==
    \/ SubmitStart(1, AutoRequest)
    \/ SubmitScore(1)
    \/ SubmitCreate(1)
    \/ \E o \in RemoteOutcomes : SubmitLaunch(1, o)
    \/ SubmitMark(1)
    \/ SubmitLog(1)
    \/ SubmitReturn(1)
    \/ MonitorStart(1)
    \/ \E probe \in RemoteProbes : MonitorStep(1, probe)
    \/ MonitorEnd(1)
SuccessiveSpec == SuccessiveInit /\ [][SuccessiveNext]_vars

\* ---- the system with the scheduling the claims about progress assume ----
\* Handlers in progress run on, and monitor ticks keep occurring.
FairSpec == Spec /\ WF_vars(ReportNext) /\ WF_vars(SubmitNext) /\ WF_vars(MonitorNext)

\* ---- GPU detection on the control plane (main.py detect_self_gpu) ----
\* The agent row of the control plane's own GPUs (main.py:574).
SELF_GPU_AGENT_HOSTNAME == "ctl-GPU-Detected"
\* Records of GPUDetector.detect_gpus on the control plane: every detection
\* method gives each record an id, a name and a status (gpu_detector.py:152-168,
\* 303-318, 637-649).  An empty list stands for no GPU found and for mock data.
dGpu0 == [id |-> "GPU-0", name |-> "GPU-0", status |-> "healthy",
          temperature |-> 50, utilization |-> 0, memoryTotal |-> 100, memoryUsed |-> 50]
dGpu0hot == [id |-> "GPU-0", name |-> "GPU-0", status |-> "overheating",
             temperature |-> 95, utilization |-> 100, memoryTotal |-> 100, memoryUsed |-> 50]
dGpu0unknown == [id |-> "GPU-0", name |-> "GPU-0", status |-> "unknown",
                 temperature |-> 0, utilization |-> 0, memoryTotal |-> 0, memoryUsed |-> 0]
DetectLists == { <<>>, <<dGpu0>>, <<dGpu0hot>>, <<dGpu0unknown>> }
\* The GPU row built from the n-th detected record, counting from 0
\* (main.py:615-628).
DetectedDefaultId(n) == IF n = 0 THEN "GPU-0" ELSE "GPU-1"
DetectedRow(d, aid, n) ==
    [id |-> Get(d, "id", DetectedDefaultId(n)),
     name |-> Get(d, "name", DetectedDefaultId(n)),
     status |-> Get(d, "status", "healthy"),
     temperature |-> Get(d, "temperature", 0),
     utilization |-> Get(d, "utilization", 0),
     memory_total |-> Get(d, "memoryTotal", 0),
     memory_used |-> Get(d, "memoryUsed", 0),
     agent_id |-> aid,
     is_available |-> (Get(d, "status", NoId) = "healthy")]

\* main.py:580-595: the detector runs; without GPUs the handler answers no_gpus
\* and writes nothing, otherwise it looks its agent up.
DetectStart(t, l) ==
    /\ LowestIdle(t)
    /\ nCalls < MaxCalls
    /\ nCalls' = nCalls + 1
    /\ loc' = [loc EXCEPT ![t] =
                  [kind |-> "detect", hostname |-> SELF_GPU_AGENT_HOSTNAME,
                   ip_address |-> IpOf(SELF_GPU_AGENT_HOSTNAME), gpus |-> l, at |-> now,
                   agent |-> IF l = <<>> THEN NULL
                             ELSE AgentIdByHostname(agents, SELF_GPU_AGENT_HOSTNAME),
                   result |-> IF l = <<>> THEN Reply(200, 0, 0) ELSE NoReply]]
    /\ pc' = [pc EXCEPT ![t] = IF l = <<>> THEN "detected" ELSE "dupsert"]
    /\ UNCHANGED <<agents, gpus, jobs, history, now, lock, lastReport>>
    /\ UNCHANGED others

\* main.py:596-609: upsert of the agent (flushed at 603) and DELETE of its rows.
DetectClear(t) ==
    /\ pc[t] = "dupsert"
    /\ CanWrite
    /\ IF loc[t].agent = NULL /\ HostnameTaken(agents, loc[t].hostname)
       THEN /\ pc' = [pc EXCEPT ![t] = "detected"]
            /\ loc' = [loc EXCEPT ![t].result = Reply(500, 0, 0)]
            /\ UNCHANGED lock
       ELSE /\ pc' = [pc EXCEPT ![t] = "dtx"]
            /\ lock' = t
            /\ UNCHANGED loc
    /\ UNCHANGED <<agents, gpus, jobs, history, now, nCalls, lastReport>>
    /\ UNCHANGED others

\* main.py:611-636: the detected rows are inserted and committed, or the
\* transaction is rolled back (646-653).
DetectCommit(t) ==
    /\ pc[t] = "dtx"
    /\ lock = t
    /\ LET aid == IF loc[t].agent = NULL THEN Len(agents) + 1 ELSE loc[t].agent
           row == [hostname |-> loc[t].hostname, ip_address |-> loc[t].ip_address,
                   last_seen |-> loc[t].at]
           kept == RowsNotOfAgent(gpus, aid)
           new == [i \in Indices(loc[t].gpus) |-> DetectedRow(loc[t].gpus[i], aid, i - 1)]
       IN  IF InsertsAccepted(kept, new)
           THEN /\ agents' = IF loc[t].agent = NULL THEN Append(agents, row)
                             ELSE [agents EXCEPT ![aid] = [@ EXCEPT !.last_seen = loc[t].at]]
                /\ gpus' = kept \o new
                /\ loc' = [loc EXCEPT ![t].result = Reply(200, Len(new), 0)]
           ELSE /\ loc' = [loc EXCEPT ![t].result = Reply(500, 0, 0)]
                /\ UNCHANGED <<agents, gpus>>
    /\ lock' = NoLock
    /\ pc' = [pc EXCEPT ![t] = "detected"]
    /\ UNCHANGED <<jobs, history, now, nCalls, lastReport>>
    /\ UNCHANGED others

\* The reply is sent and the thread is free again.
DetectReturn(t) ==
    /\ pc[t] = "detected"
    /\ pc' = [pc EXCEPT ![t] = "idle"]
    /\ loc' = [loc EXCEPT ![t] = NoLocals]
    /\ UNCHANGED <<agents, gpus, jobs, history, now, lock, nCalls, lastReport>>
    /\ UNCHANGED others

\* Report-ins, among them records without a status field, interleaved with
\* detections on the control plane.
gNoStatus == [id |-> "G-B", name |-> "card B",
              temperature |-> 50, utilization |-> 0, memoryTotal |-> 100, memoryUsed |-> 50]
DetectReportLists == { <<gA>>, <<gAhot>>, <<gNoStatus>> }
DetectNext ==
    \/ \E t \in Threads, h \in Hostnames, l \in DetectReportLists : ReportStart(t, h, l)
    \/ \E t \in Threads : ReportClear(t)
    \/ \E t \in Threads : ReportCommit(t)
    \/ \E t \in Threads : ReportReturn(t)
    \/ \E t \in Threads, l \in DetectLists : DetectStart(t, l)
    \/ \E t \in Threads : DetectClear(t)
    \/ \E t \in Threads : DetectCommit(t)
    \/ \E t \in Threads : DetectReturn(t)
DetectSpec == Init /\ [][DetectNext]_vars

\* ---- the agent's report loop (agent.py) ----
\* What one attempt of the loop ends with.  When the control plane answers:
\* status 200, another status, or another status with an HTML page that cannot be
\* saved (agent.py:143-152).  When it does not: requests raises ConnectionError or
\* a timeout (agent.py:136-141).
ReachableOutcomes == {"ok", "non200", "non200_page_not_saved"}
UnreachableOutcomes == {"connection_error", "timeout"}
Delivered(outcome) == outcome \in ReachableOutcomes
\* Every branch of the try statement falls through to time.sleep (agent.py:143-159).
AfterAttemptStopsOnError(outcome) == IF outcome = "ok" THEN "sleep" ELSE "stopped"
AfterAttempt(outcome) == "sleep"

\* agent.py:183-203: the process starts; it gives up when the health check of the
\* control plane fails, and starts the report loop otherwise.
AgentStart(h) ==
    /\ reporter[h].pc = "off"
    /\ reporter' = [reporter EXCEPT ![h].pc = IF reachable THEN "try" ELSE "aborted"]
    /\ UNCHANGED <<reachable, workloads, sql_gpus, caller>>
    /\ UNCHANGED control

\* agent.py:110-157: one pass through the body of the loop.
AgentAttempt(h, o) ==
    /\ reporter[h].pc = "try"
    /\ o \in (IF reachable THEN ReachableOutcomes ELSE UnreachableOutcomes)
    /\ reporter' = [reporter EXCEPT ![h] = [pc |-> AfterAttempt(o), outcome |-> o]]
    /\ UNCHANGED <<reachable, workloads, sql_gpus, caller>>
    /\ UNCHANGED control

\* agent.py:159: the interval is over.
AgentSleep(h) ==
    /\ reporter[h].pc = "sleep"
    /\ reporter' = [reporter EXCEPT ![h].pc = "try"]
    /\ UNCHANGED <<reachable, workloads, sql_gpus, caller>>
    /\ UNCHANGED control

\* The control plane, or the network towards it, goes down or comes back.
NetworkChange ==
    /\ reachable' = ~reachable
    /\ UNCHANGED <<reporter, workloads, sql_gpus, caller>>
    /\ UNCHANGED control

AgentNext ==
    \/ \E h \in Hostnames : AgentStart(h)
    \/ \E h \in Hostnames, o \in ReachableOutcomes \cup UnreachableOutcomes : AgentAttempt(h, o)
    \/ \E h \in Hostnames : AgentSleep(h)
    \/ NetworkChange
\* The loop is a thread of a running process: it keeps taking its steps.
AgentSpec ==
    /\ Init
    /\ [][AgentNext]_vars
    /\ \A h \in Hostnames :
          /\ WF_vars(\E o \in ReachableOutcomes \cup UnreachableOutcomes : AgentAttempt(h, o))
          /\ WF_vars(AgentSleep(h))

\* ---- the workload scheduler (app/services/scheduler.py, fault_detector.py) ----
\* Its functions are called with a database session each; two callers work at the
\* same time and interleave between their statements.
MaxWorkloads == 2   \* workloads submitted before the run
NoUuid == "none"
\* Table gpus in the order the unordered query of scheduler.py:22 returns it.
GpuTables == {<<"U-1">>, <<"U-1", "U-2">>, <<"U-2", "U-1">>}
\* Lists of faulty GPUs, as check_gpu_faults builds them from table gpus.
FaultyLists == {<<"U-1">>, <<"U-2">>, <<"U-1", "U-2">>}
\* A workload as submit_workload stores it (workload_routes.py:11-17).
PendingWorkload == [status |-> "pending", assigned_gpu_uuid |-> NoUuid]
IdleCaller == [pc |-> "idle"]

\* scheduler.py:22-36: the first GPU, in row order, that no running workload is
\* assigned to.
RunningUuids(w) ==
    {w[i].assigned_gpu_uuid : i \in {k \in Indices(w) : /\ w[k].status = "running"
                                                          /\ w[k].assigned_gpu_uuid # NoUuid}}
find_available_gpu(g, w) ==
    IF \E i \in Indices(g) : g[i] \notin RunningUuids(w)
    THEN g[CHOOSE i \in Indices(g) :
               /\ g[i] \notin RunningUuids(w)
               /\ \A k \in 1..(i - 1) : g[k] \in RunningUuids(w)]
    ELSE NoUuid

\* scheduler.py:42-50: the workload is loaded; a workload that is not pending or
\* finds no GPU is returned as it is, otherwise a GPU has been chosen.
ScheduleRead(c, id) ==
    /\ caller[c].pc = "idle"
    /\ id \in Indices(workloads)
    /\ workloads[id].status = "pending"
    /\ find_available_gpu(sql_gpus, workloads) # NoUuid
    /\ caller' = [caller EXCEPT ![c] =
                     [pc |-> "assign", id |-> id, ret |-> IdleCaller,
                      gpu |-> find_available_gpu(sql_gpus, workloads)]]
    /\ UNCHANGED <<workloads, sql_gpus, reporter, reachable>>
    /\ UNCHANGED control

\* scheduler.py:52-60: the assignment is written and committed.
RunningWorkload(gpu) == [status |-> "running", assigned_gpu_uuid |-> gpu]
ScheduleAssign(c) ==
    /\ caller[c].pc = "assign"
    /\ workloads' = [workloads EXCEPT ![caller[c].id] = RunningWorkload(caller[c].gpu)]
    /\ caller' = [caller EXCEPT ![c] = caller[c].ret]
    /\ UNCHANGED <<sql_gpus, reporter, reachable>>
    /\ UNCHANGED control

\* scheduler.py:65-79: complete_workload.
CompletedWorkload(w) == [w EXCEPT !.status = "completed"]
CompleteWorkload(c, id) ==
    /\ caller[c].pc = "idle"
    /\ id \in Indices(workloads)
    /\ workloads' = [workloads EXCEPT ![id] = CompletedWorkload(@)]
    /\ UNCHANGED <<caller, sql_gpus, reporter, reachable>>
    /\ UNCHANGED control

\* fault_detector.py:43-47: reallocate_workloads_from_faulty_gpus is called.
ReallocateStart(c, faulty) ==
    /\ caller[c].pc = "idle"
    /\ \A i \in Indices(faulty) : \E k \in Indices(sql_gpus) : sql_gpus[k] = faulty[i]
    /\ caller' = [caller EXCEPT ![c] =
                     [pc |-> "scan", faulty |-> faulty, rest |-> faulty, queue |-> <<>>]]
    /\ UNCHANGED <<workloads, sql_gpus, reporter, reachable>>
    /\ UNCHANGED control

\* fault_detector.py:47-50: the running workloads of the next faulty GPU are
\* loaded; after the last GPU the function returns.
RunningOnUuid(w, uuid) ==
    SelectSeq([i \in Indices(w) |-> i],
              LAMBDA i : w[i].assigned_gpu_uuid = uuid /\ w[i].status = "running")
ReallocateScan(c) ==
    /\ caller[c].pc = "scan"
    /\ IF caller[c].rest = <<>>
       THEN caller' = [caller EXCEPT ![c] = [pc |-> "reallocated", faulty |-> caller[c].faulty]]
       ELSE caller' = [caller EXCEPT ![c].pc = "move",
                                     ![c].queue = RunningOnUuid(workloads, Head(caller[c].rest)),
                                     ![c].rest = Tail(@)]
    /\ UNCHANGED <<workloads, sql_gpus, reporter, reachable>>
    /\ UNCHANGED control

\* fault_detector.py:52-58: the next loaded workload is made pending and loses
\* its GPU, and that is committed.
ReallocateMove(c) ==
    /\ caller[c].pc = "move"
    /\ IF caller[c].queue = <<>>
       THEN /\ caller' = [caller EXCEPT ![c].pc = "scan"]
            /\ UNCHANGED workloads
       ELSE /\ workloads' = [workloads EXCEPT ![Head(caller[c].queue)] = PendingWorkload]
            /\ caller' = [caller EXCEPT ![c].pc = "reschedule"]
    /\ UNCHANGED <<sql_gpus, reporter, reachable>>
    /\ UNCHANGED control

\* fault_detector.py:61-65 with scheduler.py:42-50: schedule_workload is called
\* for that workload in the same session.
ReallocateReschedule(c) ==
    /\ caller[c].pc = "reschedule"
    /\ LET id == Head(caller[c].queue)
           back == [caller[c] EXCEPT !.pc = "move", !.queue = Tail(@)]
       IN  IF /\ workloads[id].status = "pending"
              /\ find_available_gpu(sql_gpus, workloads) # NoUuid
           THEN caller' = [caller EXCEPT ![c] =
                              [pc |-> "assign", id |-> id, ret |-> back,
                               gpu |-> find_available_gpu(sql_gpus, workloads)]]
           ELSE caller' = [caller EXCEPT ![c] = back]
    /\ UNCHANGED <<workloads, sql_gpus, reporter, reachable>>
    /\ UNCHANGED control

\* reallocate_workloads_from_faulty_gpus has returned.
ReallocateReturn(c) ==
    /\ caller[c].pc = "reallocated"
    /\ caller' = [caller EXCEPT ![c] = IdleCaller]
    /\ UNCHANGED <<workloads, sql_gpus, reporter, reachable>>
    /\ UNCHANGED control

\* Some GPUs are registered and some workloads have been submitted.
WorkloadInit ==
    /\ agents = <<>>
    /\ gpus = <<>>
    /\ jobs = <<>>
    /\ history = <<>>
    /\ now = 0
    /\ lock = NoLock
    /\ pc = [t \in Threads |-> "idle"]
    /\ loc = [t \in Threads |-> NoLocals]
    /\ nCalls = 0
    /\ lastReport = [h \in Hostnames |-> <<>>]
    /\ reporter = [h \in Hostnames |-> [pc |-> "off", outcome |-> "none"]]
    /\ reachable = TRUE
    /\ \E n \in 1..MaxWorkloads : workloads = [i \in 1..n |-> PendingWorkload]
    /\ sql_gpus \in GpuTables
    /\ caller = [c \in Callers |-> IdleCaller]
WorkloadNext ==
    \/ \E c \in Callers, id \in 1..MaxWorkloads : ScheduleRead(c, id)
    \/ \E c \in Callers : ScheduleAssign(c)
    \/ \E c \in Callers, id \in 1..MaxWorkloads : CompleteWorkload(c, id)
    \/ \E c \in Callers, faulty \in FaultyLists : ReallocateStart(c, faulty)
    \/ \E c \in Callers : ReallocateScan(c)
    \/ \E c \in Callers : ReallocateMove(c)
    \/ \E c \in Callers : ReallocateReschedule(c)
    \/ \E c \in Callers : ReallocateReturn(c)
WorkloadSpec == WorkloadInit /\ [][WorkloadNext]_vars
\* The same functions called one after the other by a single caller.
SoloNext ==
    \/ \E id \in 1..MaxWorkloads : ScheduleRead(1, id)
    \/ ScheduleAssign(1)
    \/ \E id \in 1..MaxWorkloads : CompleteWorkload(1, id)
    \/ \E faulty \in FaultyLists : ReallocateStart(1, faulty)
    \/ ReallocateScan(1)
    \/ ReallocateMove(1)
    \/ ReallocateReschedule(1)
    \/ ReallocateReturn(1)
SoloSpec == WorkloadInit /\ [][SoloNext]_vars

\* ---- properties ----
Terminal == {"completed", "failed", "cancelled"}
AfterCreate == {"logq", "launch", "mark", "log", "logf", "submitted"}

\* C1: the GPU rows visible for an agent are, in every state, exactly the gpu
\* list of that agent's last committed report-in, also while a report-in is in
\* progress: no mixture of two reports, no emptied set.
AtomicIngest ==
    /\ \A i \in Indices(gpus) : gpus[i].agent_id \in Indices(agents)
    /\ \A h \in Hostnames :
          LET aid == AgentIdByHostname(agents, h)
              rows == SelectSeq(gpus, LAMBDA row : aid # NULL /\ row.agent_id = aid)
              rep == lastReport[h]
          IN  /\ Len(rows) = Len(rep)
              /\ \A i \in Indices(rep) :
                    /\ rows[i].id = rep[i].id
                    /\ rows[i].status = rep[i].status
                    /\ rows[i].temperature = rep[i].temperature
                    /\ rows[i].utilization = rep[i].utilization
                    /\ rows[i].memory_total = rep[i].memoryTotal
                    /\ rows[i].memory_used = rep[i].memoryUsed
\* A report-in holds its transaction open, after its DELETE, for an agent whose
\* last committed report listed other GPUs.
AtomicIngestWitness ==
    \E t \in Threads :
        /\ pc[t] = "tx"
        /\ loc[t].agent # NULL
        /\ lastReport[loc[t].hostname] # <<>>
        /\ lastReport[loc[t].hostname] # loc[t].gpus

\* C2: a job whose status is completed, failed or cancelled keeps that status in
\* every step of submit, report-in and monitor handlers.
MonotoneTerminals ==
    [][\A i \in Indices(jobs) :
          jobs[i].status \in Terminal => jobs'[i].status = jobs[i].status]_vars
\* A monitor tick is about to examine a job that another tick has completed.
MonotoneTerminalsWitness ==
    \E t \in Threads :
        /\ pc[t] = "loop"
        /\ loc[t].queue # <<>>
        /\ jobs[Head(loc[t].queue)].status = "completed"

\* C3: every running job has pid, agent_id, assigned_gpu_id and started_at set,
\* whatever the body of the agent's HTTP 200 reply.
RunningCoherence ==
    \A i \in Indices(jobs) :
        jobs[i].status = "running" =>
            /\ jobs[i].pid # NULL
            /\ jobs[i].agent_id # NULL
            /\ jobs[i].assigned_gpu_id # NoId
            /\ jobs[i].started_at # NULL

\* C4: every job whose status is completed, failed or cancelled has finished_at set.
TerminalHasFinishedAt ==
    \A i \in Indices(jobs) : jobs[i].status \in Terminal => jobs[i].finished_at # NULL

\* C5: a GPU with temperature 50, utilization 0, no active job, memory_used 0 and
\* memory_total 100 has priority score exactly 100.
ScoreOfIdleGpuIs100 ==
    \A i \in Indices(gpus) :
        (/\ gpus[i].temperature = 50
         /\ gpus[i].utilization = 0
         /\ gpus[i].memory_used = 0
         /\ gpus[i].memory_total = 100
         /\ ActiveJobsOn(jobs, gpus[i].id) = 0)
        => ScoreIs(calculate_gpu_priority_score(gpus[i], ActiveJobsOn(jobs, gpus[i].id)), 100)

\* C6: auto placement selects a candidate of minimum score and, among the
\* candidates of minimum score, the one with the lexicographically smallest id.
ScoreOf(row) == calculate_gpu_priority_score(row, ActiveJobsOn(jobs, row.id))
SelectsLeastIdOfMinimumScore ==
    (pc[1] = "create" /\ loc[1].cands # <<>>) =>
        \E i \in Indices(loc[1].cands) :
            /\ loc[1].cands[i].id = loc[1].sel.id
            /\ \A k \in Indices(loc[1].cands) :
                  /\ ~ScoreLess(ScoreOf(loc[1].cands[k]), ScoreOf(loc[1].cands[i]))
                  /\ ~ScoreLess(ScoreOf(loc[1].cands[i]), ScoreOf(loc[1].cands[k]))
                        => IdRank(loc[1].cands[i].id) <= IdRank(loc[1].cands[k].id)

\* C7: auto placement over the same GPU rows and the same active-job counts
\* selects the same GPU whatever the order in which the store holds the rows.
Reordered(g, p) == [i \in Indices(g) |-> g[p[i]]]
PlacementIgnoresStoreOrder ==
    ListAvailableGPUs(gpus) # <<>> =>
        \A p \in Permutations(Indices(gpus)) :
            find_optimal_gpu(ListAvailableGPUs(Reordered(gpus, p)), jobs).id
                = find_optimal_gpu(ListAvailableGPUs(gpus), jobs).id

QueuedJobsAreUnassigned ==
    /\ \A i \in Indices(jobs) :
          jobs[i].status = "queued" =>
              /\ jobs[i].assigned_gpu_id = NoId
              /\ jobs[i].agent_id = NULL
              /\ jobs[i].pid = NULL
              /\ jobs[i].started_at = NULL
    /\ \A t \in Threads :
          (pc[t] = "submitted" /\ loc[t].auto /\ loc[t].avail = {}) =>
              /\ loc[t].created = 1
              /\ loc[t].result.status = "queued"
              /\ loc[t].result.job_id = loc[t].job
              /\ jobs[loc[t].job].status = "queued"
\* A submit has returned queued while a monitor tick is in progress.
QueuedJobsAreUnassignedWitness ==
    \E t \in Threads :
        /\ pc[t] = "submitted"
        /\ loc[t].result.status = "queued"
        /\ \E u \in Threads : pc[u] = "loop"

\* C10: once a healthy available GPU is visible, every queued job eventually
\* leaves status queued, monitor ticks occurring for ever.
QueuedJobsAreDrained ==
    \A i \in 1..MaxCalls :
        (i \in Indices(jobs) /\ jobs[i].status = "queued" /\ HealthyAvailableIds(gpus) # {})
            ~> (i \in Indices(jobs) /\ jobs[i].status # "queued")

\* A tick is about to probe job i: the job is at the head of the tick's list, has
\* a handle and, when remote, an agent to ask (scheduler.py:266-287).
Probed(t, i) ==
    /\ pc[t] = "loop"
    /\ loc[t].queue # <<>>
    /\ Head(loc[t].queue) = i
    /\ Truthy(jobs[i].pid)
    /\ is_local_agent(agents, jobs[i].agent_id) \/ jobs[i].agent_id \in Indices(agents)

\* C11: monitor ticks occurring for ever, no running job is skipped by every
\* tick: a running job is eventually probed by a tick, or is terminal.
RunningJobsAreProbed ==
    \A i \in 1..MaxCalls :
        (i \in Indices(jobs) /\ jobs[i].status = "running")
            ~> (i \in Indices(jobs)
                /\ (jobs[i].status \in Terminal \/ \E t \in Threads : Probed(t, i)))

\* C12: when the launch of a placed job fails, the submit returns failed for that
\* job, the job is failed and has a 'failed' history event; a launch is only ever
\* attempted on a job still pending, by the one submit that created it.
LaunchFailureIsFinal ==
    /\ \A t \in Threads :
          (pc[t] = "submitted" /\ loc[t].tried /\ ~loc[t].ok) =>
              /\ loc[t].result.status = "failed"
              /\ loc[t].result.job_id = loc[t].job
              /\ jobs[loc[t].job].status = "failed"
              /\ \E k \in Indices(history) :
                    history[k].job_id = loc[t].job /\ history[k].action = "failed"
    /\ \A t \in Threads :
          pc[t] = "launch" =>
              /\ jobs[loc[t].job].status = "pending"
              /\ \A u \in Threads \ {t} : pc[u] \in AfterCreate => loc[u].job # loc[t].job
\* A submit has returned after a failed launch while another submit is about to
\* launch its own job.
LaunchFailureIsFinalWitness ==
    \E t, u \in Threads :
        /\ pc[t] = "submitted" /\ loc[t].tried /\ ~loc[t].ok
        /\ pc[u] = "launch"

\* C13: a tick that probes a remote running job completes it exactly when the
\* agent answers HTTP 200 with not_running or not_found; on any other outcome the
\* jobs and the history are unchanged and the job is still among the running jobs
\* the next tick loads.
RemoteProbeDecides ==
    [][\A t \in Threads, probe \in RemoteProbes :
          (/\ MonitorStep(t, probe)
           /\ Probed(t, Head(loc[t].queue))
           /\ jobs[Head(loc[t].queue)].status = "running"
           /\ ~is_local_agent(agents, jobs[Head(loc[t].queue)].agent_id))
          => LET id == Head(loc[t].queue)
             IN  IF probe \in {"not_running", "not_found"}
                 THEN jobs'[id].status = "completed"
                 ELSE /\ jobs' = jobs
                      /\ history' = history
                      /\ \E k \in Indices(RunningJobs(jobs')) : RunningJobs(jobs')[k] = id]_vars
\* A tick has gone through its jobs: it completed one remote job and another
\* remote job with a handle is still running.
RemoteProbeDecidesWitness ==
    \E t \in Threads :
        /\ pc[t] = "loop"
        /\ loc[t].queue = <<>>
        /\ \E k \in Indices(history) :
              history[k].action = "completed" /\ history[k].details = "Remote job finished"
        /\ \E i \in Indices(jobs) :
              /\ jobs[i].status = "running"
              /\ Truthy(jobs[i].pid)
              /\ ~is_local_agent(agents, jobs[i].agent_id)

\* C14: a tick that examines a running local job whose process is gone or not
\* running completes it, sets finished_at and appends one 'completed' event for
\* it; when the process is running the jobs and the history are unchanged.
LocalProbeDecides ==
    [][\A t \in Threads, probe \in LocalProbes :
          (/\ MonitorStep(t, probe)
           /\ jobs[Head(loc[t].queue)].status = "running"
           /\ is_local_agent(agents, jobs[Head(loc[t].queue)].agent_id))
          => LET id == Head(loc[t].queue)
             IN  IF probe \in {"not_running", "no_such_process"}
                 THEN /\ jobs'[id].status = "completed"
                      /\ jobs'[id].finished_at # NULL
                      /\ Len(history') = Len(history) + 1
                      /\ history'[Len(history')].job_id = id
                      /\ history'[Len(history')].action = "completed"
                 ELSE jobs' = jobs /\ history' = history]_vars
\* A tick has gone through its jobs: it completed one local job and another
\* local job is still running.
LocalProbeDecidesWitness ==
    \E t \in Threads :
        /\ pc[t] = "loop"
        /\ loc[t].queue = <<>>
        /\ \E k \in Indices(history) :
              /\ history[k].action = "completed"
              /\ history[k].details = "Job process not found, assuming completed."
        /\ \E i \in Indices(jobs) :
              jobs[i].status = "running" /\ is_local_agent(agents, jobs[i].agent_id)

\* C15: cancel on a job that is completed, failed or cancelled answers
\* already_finished and leaves the job's row and the history unchanged.
CancelOfTerminalJobIsRefused ==
    [][\A t \in Threads, job_id \in JobIdsAsked :
          (/\ CancelCall(t, job_id)
           /\ job_id \in Indices(jobs)
           /\ jobs[job_id].status \in Terminal)
          => /\ loc'[t].result.body.status = "already_finished"
             /\ jobs' = jobs
             /\ history' = history]_vars

\* C16: cancel on a job running on the local agent leaves it cancelled, with
\* finished_at set and a history event appended for it; cancel on an unknown job
\* id answers 404 not_found and changes nothing.
CancelEndsRunningLocalJob ==
    [][\A t \in Threads, job_id \in JobIdsAsked :
          CancelCall(t, job_id) =>
              IF job_id \notin Indices(jobs)
              THEN /\ loc'[t].result.code = 404
                   /\ jobs' = jobs
                   /\ history' = history
              ELSE (/\ jobs[job_id].status = "running"
                    /\ is_local_agent(agents, jobs[job_id].agent_id))
                   => /\ jobs'[job_id].status = "cancelled"
                      /\ jobs'[job_id].finished_at # NULL
                      /\ Len(history') = Len(history) + 1
                      /\ history'[Len(history')].job_id = job_id]_vars

\* C17: a status request for a job id that does not exist is answered 404, one
\* for an existing job is answered with that job's snapshot; neither changes the
\* tables.
StatusOfUnknownJobIsNotFound ==
    [][\A t \in Threads, job_id \in JobIdsAsked :
          StatusCall(t, job_id) =>
              /\ UNCHANGED <<agents, gpus, jobs, history>>
              /\ IF job_id \notin Indices(jobs)
                 THEN loc'[t].result.code = 404
                 ELSE /\ loc'[t].result.code = 200
                      /\ loc'[t].result.body.id = job_id
                      /\ loc'[t].result.body.status = jobs[job_id].status
                      /\ loc'[t].result.body.started_at = jobs[job_id].started_at
                      /\ loc'[t].result.body.finished_at = jobs[job_id].finished_at]_vars

HistoryIsAppendOnly ==
    [][/\ Len(history') >= Len(history)
       /\ \A k \in Indices(history) :
             /\ history'[k].job_id = history[k].job_id
             /\ history'[k].timestamp = history[k].timestamp
             /\ history'[k].action = history[k].action
             /\ history'[k].details = history[k].details]_vars
\* Two ticks have each written a 'completed' event for the same job, after its
\* 'started' event.
HistoryIsAppendOnlyWitness ==
    \E k, m \in Indices(history) :
        /\ k < m
        /\ history[k].action = "completed"
        /\ history[m].action = "completed"
        /\ history[k].job_id = history[m].job_id

\* C20: the store outlives a stop and start of the control plane: the agents,
\* GPUs, jobs and history recorded before are present after it, and the jobs
\* table never shrinks, so that no job id is issued a second time.
StoreIsDurable ==
    [][/\ Restart => UNCHANGED <<agents, gpus, jobs, history>>
       /\ Len(jobs') >= Len(jobs)]_vars

\* C21: no two agent rows share a hostname, also when two report-ins for the same
\* new hostname overlap; a report-in for a hostname that exists adds no row.
UniqueHostnames ==
    /\ \A i, k \in Indices(agents) : agents[i].hostname = agents[k].hostname => i = k
    /\ \A t \in Threads :
          (pc[t] = "reported" /\ loc[t].agent # NULL) =>
              /\ loc[t].agent \in Indices(agents)
              /\ agents[loc[t].agent].hostname = loc[t].hostname
\* Of two report-ins that both found the hostname unregistered, one has committed
\* the agent's row and the other has been refused.
UniqueHostnamesWitness ==
    \E t, u \in Threads :
        /\ t # u
        /\ pc[t] = "reported" /\ pc[u] = "reported"
        /\ loc[t].hostname = loc[u].hostname
        /\ loc[t].agent = NULL /\ loc[u].agent = NULL
        /\ loc[t].result.code = 200
        /\ loc[u].result.code = 500

\* The records of a report that can be stored: those with an id that no other
\* agent's row holds and that no earlier record of the report has.
Storable(l, kept) ==
    {i \in Indices(l) :
        /\ Get(l[i], "id", NoId) # NoId
        /\ Get(l[i], "id", NoId) \notin GpuIds(kept)
        /\ \A k \in 1..(i - 1) : Get(l[k], "id", NoId) # Get(l[i], "id", NoId)}

\* C22: a report-in with a malformed record succeeds: the well-formed records
\* become the agent's GPU set and gpus_added counts the records stored.
IngestSkipsMalformedRecords ==
    [][\A t \in Threads :
          ReportCommit(t) =>
              LET aid == IF loc[t].agent = NULL THEN Len(agents) + 1 ELSE loc[t].agent
                  l == loc[t].gpus
                  good == Storable(l, RowsNotOfAgent(gpus, aid))
              IN  good # Indices(l) =>
                      /\ loc'[t].result.code = 200
                      /\ loc'[t].result.gpus_added = Cardinality(good)
                      /\ GpuIds(RowsOfAgent(gpus', aid)) = {l[i].id : i \in good}]_vars

\* C23: a report-in that fails is answered with an error and has changed nothing:
\* no step of it changes the agents or the GPUs that are visible.
FailedIngestChangesNothing ==
    [][\A t \in Threads :
          /\ (pc[t] \in {"upsert", "tx"} /\ pc'[t] = "reported" /\ loc'[t].result.code # 200)
                => (loc'[t].result.code = 500 /\ UNCHANGED <<agents, gpus>>)
          /\ (pc[t] = "upsert" /\ pc'[t] = "tx") => UNCHANGED <<agents, gpus>>]_vars
\* A later report-in of a registered agent that has GPUs has failed.
FailedIngestChangesNothingWitness ==
    \E t \in Threads :
        /\ pc[t] = "reported"
        /\ loc[t].result.code = 500
        /\ loc[t].agent # NULL
        /\ agents[loc[t].agent].last_seen # loc[t].at
        /\ RowsOfAgent(gpus, loc[t].agent) # <<>>

\* C24: the gpu value in the response of a submit that was dispatched is the id
\* stored in the job's assigned_gpu_id, and the job's agent_id is the agent that
\* owns that GPU.
ResponseNamesAssignedGpu ==
    \A t \in Threads :
        (pc[t] = "submitted" /\ loc[t].result.status = "running") =>
            /\ loc[t].result.gpu = jobs[loc[t].job].assigned_gpu_id
            /\ jobs[loc[t].job].assigned_gpu_id \in GpuIds(gpus)
            /\ jobs[loc[t].job].agent_id
                   = GpuById(gpus, jobs[loc[t].job].assigned_gpu_id).agent_id

\* Two candidates that differ at most in id and name.
SameLoad(a, b) ==
    /\ a.temperature = b.temperature
    /\ a.utilization = b.utilization
    /\ a.memory_total = b.memory_total
    /\ a.memory_used = b.memory_used
\* Auto placement never selects a candidate when an identical one has strictly
\* fewer active jobs.
PrefersFewerActiveJobs ==
    (pc[1] = "create" /\ loc[1].cands # <<>>) =>
        \A i, k \in Indices(loc[1].cands) :
            (/\ SameLoad(loc[1].cands[i], loc[1].cands[k])
             /\ ActiveJobsOn(jobs, loc[1].cands[k].id) < ActiveJobsOn(jobs, loc[1].cands[i].id))
            => loc[1].sel.id # loc[1].cands[i].id

\* C25: of two identical healthy available GPUs auto placement selects the one
\* with strictly fewer active jobs, and two successive submits over two identical
\* idle GPUs are placed on different GPUs.
SuccessiveSubmitsSpread ==
    /\ PrefersFewerActiveJobs
    /\ (Len(jobs) >= 2 /\ SameLoad(gpus[1], gpus[2]))
           => jobs[1].assigned_gpu_id # jobs[2].assigned_gpu_id
\* C25, amended: of two identical healthy available GPUs auto placement selects
\* the one with strictly fewer active jobs; the second of two successive submits
\* over two identical idle GPUs is placed on the other GPU when the job of the
\* first is still running or pending.
SuccessiveSubmitsSpreadWhileActive ==
    /\ PrefersFewerActiveJobs
    /\ (/\ pc[1] \in AfterCreate
        /\ loc[1].job = 2
        /\ SameLoad(gpus[1], gpus[2])
        /\ jobs[1].status \in {"running", "pending"})
           => jobs[1].assigned_gpu_id # jobs[2].assigned_gpu_id
\* The second submit has been placed while the first job runs on an identical GPU.
SuccessiveSubmitsSpreadWitness ==
    /\ pc[1] = "launch"
    /\ loc[1].job = 2
    /\ SameLoad(gpus[1], gpus[2])
    /\ jobs[1].status = "running"

\* C26: of two healthy available GPUs that are identical except that one is
\* above 80 degrees and the other is not, auto placement selects the cooler one,
\* whichever of the two the store holds first.
PrefersCoolerGpu ==
    (pc[1] = "create" /\ loc[1].cands # <<>>) =>
        \A i, k \in Indices(loc[1].cands) :
            (/\ loc[1].cands[i].temperature > 80
             /\ loc[1].cands[k].temperature <= 80
             /\ loc[1].cands[i].utilization = loc[1].cands[k].utilization
             /\ loc[1].cands[i].memory_total = loc[1].cands[k].memory_total
             /\ loc[1].cands[i].memory_used = loc[1].cands[k].memory_used
             /\ ActiveJobsOn(jobs, loc[1].cands[i].id) = ActiveJobsOn(jobs, loc[1].cands[k].id))
            => loc[1].sel.id # loc[1].cands[i].id
\* The store holds the GPU at 85 degrees first and the one at 79 second, otherwise
\* identical, and the second has been selected.
PrefersCoolerGpuWitness ==
    /\ pc[1] = "create"
    /\ Len(loc[1].cands) = 2
    /\ loc[1].cands[1].temperature = 85
    /\ loc[1].cands[2].temperature = 79
    /\ loc[1].cands[1].utilization = loc[1].cands[2].utilization
    /\ loc[1].cands[1].memory_used = loc[1].cands[2].memory_used
    /\ ActiveJobsOn(jobs, loc[1].cands[1].id) = ActiveJobsOn(jobs, loc[1].cands[2].id)
    /\ loc[1].sel.id = loc[1].cands[2].id

\* ---- submit calls while an agent replaces its GPUs ----
\* Report-ins whose list need not hold the GPU reported before (main.py:191-217
\* deletes the agent's rows and inserts the listed ones), interleaved with auto
\* submits.
ReplaceLists == { <<>>, <<gA>>, <<gB>> }
ReplaceNext ==
    \/ \E t \in Threads, h \in Hostnames, l \in ReplaceLists : ReportStart(t, h, l)
    \/ \E t \in Threads : ReportClear(t)
    \/ \E t \in Threads : ReportCommit(t)
    \/ \E t \in Threads : ReportReturn(t)
    \/ \E t \in Threads : SubmitStart(t, AutoRequest)
    \/ \E t \in Threads : SubmitScore(t)
    \/ \E t \in Threads : SubmitCreate(t)
    \/ \E t \in Threads : SubmitLogQueued(t)
    \/ \E t \in Threads, o \in LocalOutcomes \cup RemoteOutcomes : SubmitLaunch(t, o)
    \/ \E t \in Threads : SubmitMark(t)
    \/ \E t \in Threads : SubmitLog(t)
    \/ \E t \in Threads : SubmitReturn(t)
ReplaceSpec == Init /\ [][ReplaceNext]_vars

\* ---- a submit that names its GPU ----
\* Agent node1 has reported one or two GPUs of any status and temperature, some of
\* them with running jobs; a submit asks for G-A by its id.
PreferredRecords ==
    [id : {"G-A", "G-B"}, name : {"card"}, status : {"healthy", "overheating"},
     temperature : {50, 95}, utilization : {0}, memoryTotal : {100}, memoryUsed : {50}]
PreferredReports ==
    {<<r>> : r \in PreferredRecords}
        \cup {l \in [1..2 -> PreferredRecords] : l[1].id # l[2].id}
PreferRequest == [workload_type |-> <<" ", "x", " ">>, command |-> <<" ", "x", " ">>,
                  preferred_gpu |-> "G-A"]
PreferredInit ==
    /\ now = 0
    /\ agents = <<[hostname |-> "node1", ip_address |-> IpOf("node1"), last_seen |-> 0]>>
    /\ \E l \in PreferredReports :
          /\ gpus = [i \in Indices(l) |-> GpuRow(l[i], 1)]
          /\ lastReport = [h \in Hostnames |-> IF h = "node1" THEN l ELSE <<>>]
    /\ jobs \in PlacementJobs
    /\ history = [i \in Indices(jobs) |-> Event(i, "started", "Job running")]
    /\ lock = NoLock
    /\ pc = [t \in Threads |-> "idle"]
    /\ loc = [t \in Threads |-> NoLocals]
    /\ nCalls = 0
    /\ OthersInit
PreferredNext ==
    \/ SubmitStart(1, PreferRequest)
    \/ SubmitCreate(1)
PreferredSpec == PreferredInit /\ [][PreferredNext]_vars

\* ---- placement over cold GPUs ----
\* Agent node1 has reported one or two healthy GPUs at 0 or 10 degrees, or without
\* a temperature field (stored as 0, main.py:204); a submit places a job.
ColdRecords ==
    [id : {"G-A", "G-B"}, name : {"card"}, status : {"healthy"}, temperature : {0, 10},
     utilization : {0}, memoryTotal : {100}, memoryUsed : {50}]
        \cup [id : {"G-A", "G-B"}, name : {"card"}, status : {"healthy"},
              utilization : {0}, memoryTotal : {100}, memoryUsed : {50}]
ColdReports ==
    {<<r>> : r \in ColdRecords} \cup {l \in [1..2 -> ColdRecords] : l[1].id # l[2].id}
ColdInit ==
    /\ now = 0
    /\ agents = <<[hostname |-> "node1", ip_address |-> IpOf("node1"), last_seen |-> 0]>>
    /\ \E l \in ColdReports :
          /\ gpus = [i \in Indices(l) |-> GpuRow(l[i], 1)]
          /\ lastReport = [h \in Hostnames |-> IF h = "node1" THEN l ELSE <<>>]
    /\ jobs \in PlacementJobs
    /\ history = [i \in Indices(jobs) |-> Event(i, "started", "Job running")]
    /\ lock = NoLock
    /\ pc = [t \in Threads |-> "idle"]
    /\ loc = [t \in Threads |-> NoLocals]
    /\ nCalls = 0
    /\ OthersInit
ColdSpec == ColdInit /\ [][PlacementNext]_vars

\* C27: at most one monitor tick is in flight at any time, so no running job is
\* examined by two ticks at once.
AtMostOneTickInFlight ==
    \A t, u \in Threads :
        (t # u /\ pc[t] = "loop" /\ pc[u] = "loop") =>
            \A i \in Indices(loc[t].queue) : \A k \in Indices(loc[u].queue) :
                loc[t].queue[i] # loc[u].queue[k]

\* C28: when a submit call has finished, the job it created is queued, running or
\* failed (or already completed by a tick), never pending.
FinishedSubmitLeavesNoPendingJob ==
    \A t \in Threads :
        (pc[t] = "submitted" /\ loc[t].created = 1) =>
            jobs[loc[t].job].status \in {"queued", "running", "failed", "completed"}

\* C29: a monitor tick that acts on a job whose status is not running leaves the
\* jobs and the history unchanged, also when two ticks overlap.
TickLeavesNonRunningJobsAlone ==
    [][\A t \in Threads : \A probe \in LocalProbes \cup RemoteProbes :
          (MonitorStep(t, probe) /\ jobs[Head(loc[t].queue)].status # "running")
              => UNCHANGED <<jobs, history>>]_vars

\* C30: once no operation is in progress, the history of each job holds exactly
\* one event for each status the job has entered and none for any other status.
EventsOf(h, id, action) ==
    Cardinality({i \in Indices(h) : h[i].job_id = id /\ h[i].action = action})
StatusesEntered(job) ==
    CASE job.status = "queued" -> {"queued"}
      [] job.status = "running" -> {"running"}
      [] job.status = "completed" -> {"running", "completed"}
      [] job.status = "failed" -> {"failed"}
      [] OTHER -> {}
EventOfStatus(s) == IF s = "running" THEN "started" ELSE s
OneEventPerStatusEntered ==
    (\A t \in Threads : pc[t] = "idle") =>
        \A id \in Indices(jobs) :
            \A s \in {"queued", "running", "completed", "failed"} :
                EventsOf(history, id, EventOfStatus(s)) =
                    (IF s \in StatusesEntered(jobs[id]) THEN 1 ELSE 0)

\* C31: each job is launched at most once, by the submit that created it, while it
\* is pending, and through the path its GPU's agent calls for: a local spawn when
\* the control plane's hostname is a substring of the agent's hostname, the
\* remote run-job call otherwise.
LaunchedAtMostOnce ==
    [][\A t \in Threads : \A o \in LocalOutcomes \cup RemoteOutcomes :
          (SubmitLaunch(t, o) /\ loc'[t].tried) =>
              /\ ~loc[t].tried
              /\ jobs[loc[t].job].status = "pending"
              /\ \A u \in Threads \ {t} : loc[u].kind = "submit" => loc[u].job # loc[t].job
              /\ LET h == agents[GpuById(gpus, loc[t].sel.id).agent_id].hostname
                 IN  /\ o.kind = "spawned" => HostnameContains(h, ControlPlaneHost)
                     /\ o.kind = "reply" => ~HostnameContains(h, ControlPlaneHost)]_vars
\* A job has been spawned on the local agent while an earlier job has failed.
LaunchedAtMostOnceWitness ==
    \E t \in Threads :
        /\ pc[t] = "mark" /\ loc[t].tried /\ loc[t].ok
        /\ HostnameContains(agents[jobs[loc[t].job].agent_id].hostname, ControlPlaneHost)
        /\ \E i \in Indices(jobs) : jobs[i].status = "failed"

\* C32: a submit whose preferred_gpu names a GPU in the store is not scored, and
\* its job is assigned to exactly that GPU and to that GPU's agent, whatever the
\* GPU's status, availability, temperature and active jobs.
PreferredGpuIsUsed ==
    /\ pc[1] # "score"
    /\ (pc[1] # "idle" /\ PreferRequest.preferred_gpu \in GpuIds(gpus)) =>
           loc[1].sel.id = PreferRequest.preferred_gpu
    /\ (pc[1] # "idle" /\ loc[1].created = 1) =>
           /\ jobs[loc[1].job].assigned_gpu_id = PreferRequest.preferred_gpu
           /\ jobs[loc[1].job].agent_id = GpuById(gpus, PreferRequest.preferred_gpu).agent_id
           /\ jobs[loc[1].job].status = "pending"
\* The job went to G-A, which is overheating, at 95 degrees and has a running job,
\* while G-B is healthy, cooler and idle.
PreferredGpuIsUsedWitness ==
    /\ pc[1] = "launch"
    /\ jobs[loc[1].job].assigned_gpu_id = "G-A"
    /\ GpuById(gpus, "G-A").status = "overheating"
    /\ GpuById(gpus, "G-A").temperature = 95
    /\ ActiveJobsOn(jobs, "G-A") = 2
    /\ "G-B" \in GpuIds(gpus)
    /\ GpuById(gpus, "G-B").status = "healthy"
    /\ GpuById(gpus, "G-B").temperature = 50
    /\ ActiveJobsOn(jobs, "G-B") = 0

\* C33: a stored temperature of 0 is scored as 0, so of two GPUs that are
\* otherwise identical and equally loaded the one at 0 degrees is selected rather
\* than the one at 10 degrees.
ZeroTemperatureIsScoredAsZero ==
    (pc[1] = "create" /\ loc[1].cands # <<>>) =>
        \A i, k \in Indices(loc[1].cands) :
            (/\ loc[1].cands[i].temperature = 10
             /\ loc[1].cands[k].temperature = 0
             /\ ActiveJobsOn(jobs, loc[1].cands[i].id) = ActiveJobsOn(jobs, loc[1].cands[k].id))
            => loc[1].sel.id = loc[1].cands[k].id

\* C34: a report-in for one agent leaves the GPU rows of every other agent as
\* they are, and in every state each GPU id is held by exactly one row, hence by
\* one agent.
OtherAgentsRows(g, aid) == SelectSeq(g, LAMBDA row : row.agent_id # aid)
ReportTouchesOwnRowsOnly ==
    [][/\ \A i, k \in Indices(gpus') : gpus'[i].id = gpus'[k].id => i = k
       /\ \A t \in Threads :
             (pc[t] \in {"upsert", "tx"} /\ pc'[t] # pc[t]) =>
                 LET aid == IF loc[t].agent = NULL THEN Len(agents) + 1 ELSE loc[t].agent
                 IN  OtherAgentsRows(gpus', aid) = OtherAgentsRows(gpus, aid)]_vars
\* A report-in has replaced the rows of one agent while another agent holds rows.
ReportTouchesOwnRowsOnlyWitness ==
    \E t \in Threads :
        /\ pc[t] = "reported"
        /\ loc[t].result.code = 200
        /\ loc[t].result.gpus_removed > 0
        /\ loc[t].result.gpus_added > 0
        /\ \E i \in Indices(gpus) : gpus[i].agent_id # AgentIdByHostname(agents, loc[t].hostname)

ActiveJobsPointAtStoredGpus ==
    \A i \in Indices(jobs) :
        jobs[i].status \in {"pending", "running"} =>
            /\ jobs[i].assigned_gpu_id \in GpuIds(gpus)
            /\ GpuById(gpus, jobs[i].assigned_gpu_id).agent_id = jobs[i].agent_id

\* C37: the last_seen of an agent never decreases, and no agent row is ever
\* deleted.
LastSeenNeverDecreases ==
    [][\A i \in Indices(agents) :
          /\ i \in Indices(agents')
          /\ agents'[i].hostname = agents[i].hostname
          /\ agents'[i].last_seen >= agents[i].last_seen]_vars

\* C38: an agent whose report loop has started attempts a report-in again and
\* again for ever, whatever its attempts end with, and when the control plane
\* stays reachable from some time on a report of the agent is delivered after
\* that, again and again.
Looping(h) == reporter[h].pc \in {"try", "sleep"}
AgentKeepsReporting ==
    \A h \in Hostnames :
        /\ [](Looping(h) => [](Looping(h)))
        /\ [](Looping(h) => <>(reporter[h].pc = "try"))
        /\ (<>[]reachable) =>
               [](Looping(h) => <>(reporter[h].pc = "sleep" /\ Delivered(reporter[h].outcome)))
\* An attempt of a started loop has failed, the loop is about to try again and the
\* control plane is reachable again.
AgentKeepsReportingWitness ==
    \E h \in Hostnames :
        /\ reporter[h].pc = "try"
        /\ reporter[h].outcome \in UnreachableOutcomes
        /\ reachable

\* C39: in the workload scheduler no GPU has more than one running workload
\* assigned to it.
OneRunningWorkloadPerGpu ==
    \A i, k \in Indices(workloads) :
        (/\ workloads[i].status = "running"
         /\ workloads[k].status = "running"
         /\ workloads[i].assigned_gpu_uuid # NoUuid
         /\ workloads[i].assigned_gpu_uuid = workloads[k].assigned_gpu_uuid) => i = k

\* C40: when reallocate_workloads_from_faulty_gpus has returned, no running
\* workload is assigned to a GPU of its faulty list.
NoRunningWorkloadOnFaultyGpu ==
    \A c \in Callers :
        caller[c].pc = "reallocated" =>
            \A i \in Indices(workloads) :
                workloads[i].status = "running" =>
                    \A k \in Indices(caller[c].faulty) :
                        workloads[i].assigned_gpu_uuid # caller[c].faulty[k]

====
